---- MODULE Spec2Model ----
(***************************************************************************)
(* State-machine model of ext/magic/ruby-magic.c: the Ruby binding of      *)
(* libmagic.  Interpreter threads call the methods of Magic objects; a     *)
(* thread runs interpreter code only while it holds the global VM lock     *)
(* (GVL), so every stretch of C code between two points where the GVL is   *)
(* given up is one atomic action.  The GVL is given up in Mutex#lock when  *)
(* the mutex is taken, and for the duration of a call made through NOGVL.  *)
(***************************************************************************)
EXTENDS Integers, Sequences, FiniteSets, TLC

\* ------------------------------------------------------------------ bounds
NumThreads == 2
NumObjects == 1
MaxCalls == 3

Threads == 1..NumThreads
Objects == 1..NumObjects

\* ------------------------------------------------------- program constants
MAGIC_NONE == 0
MAGIC_MIME_TYPE == 16
ENOSYS == 38
EINVAL == 22
EFAULT == 14
ENOENT == 2
UnknownErrno == -1

\* Qnil in an integer-valued slot, NULL in a pointer slot, no owner of a lock.
Nil == -1
NULL == 0
NoThread == 0

\* Ruby values passed to the one-argument methods: a type tag and a payload.
\* A Fixnum is wider than a C int (wide) or fits one; NUM2INT raises
\* RangeError on a wide one.
Fixnum(n) == [type |-> "T_FIXNUM", v |-> n, wide |-> FALSE]
WideFixnum == [type |-> "T_FIXNUM", v |-> 0, wide |-> TRUE]
String(n) == [type |-> "T_STRING", v |-> n, wide |-> FALSE]
NoArg == [type |-> "T_NONE", v |-> 0, wide |-> FALSE]
Values == {Fixnum(MAGIC_NONE), Fixnum(MAGIC_MIME_TYPE), WideFixnum, String(0)}

\* Strings are sequences of characters; the rest-argument of load, check and
\* compile is an array of strings.
PathArguments == { <<>>, << <<"m">>, <<"n">> >> }
DefaultPath == <<"d">>
EnvPath == <<"e", ":", "d">>

\* Native errors a failing libmagic call may record in the cookie (0: none).
NativeErrnos == {ENOENT}

VARIABLES
    alive,      \* FALSE once undefined behaviour has aborted the process
    gvl,        \* the thread holding the GVL across several steps, or NoThread
    phase,      \* per object: "unborn", "init", "live", "dead", "collected"
    dataPtr,    \* per object: DATA_PTR, the cookie (the object's id) or NULL
    closes,     \* per cookie: how many times magic_close was called on it
    nerr,       \* per cookie: errno of the recorded error message, 0 if none
    ivFlags,    \* per object: @flags
    ivPath,     \* per object: @path, {} for nil, {array} otherwise
    mutex,      \* per object: owner of @mutex, NoThread when unlocked
    th,         \* per thread: the call in progress
    calls,      \* how many method calls were made so far
    closeReturned,  \* history, per object: close has returned on it
    lastSet,    \* history, per object: the value of the last flags= that
                \* returned, 0 before the first
    ev          \* the method call completed by the last step, if any

vars == <<alive, gvl, phase, dataPtr, closes, nerr, ivFlags, ivPath, mutex, th,
          calls, closeReturned, lastSet, ev>>
objvars == <<phase, dataPtr, closes, nerr, ivFlags, ivPath, mutex>>
history == <<closeReturned, lastSet>>

Idle == [pc |-> "idle", op |-> "", obj |-> 0, arg |-> NoArg, path |-> <<>>,
         rv |-> "none"]
NoEvent == [op |-> "", obj |-> 0, arg |-> NoArg, kind |-> "none", val |-> "",
            num |-> 0, klass |-> "", errno |-> 0, rv |-> "none", cerrno |-> 0]

\* ---------------------------------------------------------------- helpers
RECURSIVE magic_join(_)
magic_join(array) ==
    IF array = <<>> THEN <<>>
    ELSE IF Len(array) = 1 THEN Head(array)
    ELSE Head(array) \o <<":">> \o magic_join(Tail(array))

RECURSIVE SplitFrom(_, _)
SplitFrom(str, cur) ==
    IF str = <<>> THEN <<cur>>
    ELSE IF Head(str) = ":" THEN <<cur>> \o SplitFrom(Tail(str), <<>>)
    ELSE SplitFrom(Tail(str), Append(cur, Head(str)))

RECURSIVE DropTrailingEmpty(_)
DropTrailingEmpty(array) ==
    IF array = <<>> THEN <<>>
    ELSE IF array[Len(array)] = <<>>
         THEN DropTrailingEmpty(SubSeq(array, 1, Len(array) - 1))
    ELSE array

magic_split(str) == DropTrailingEmpty(SplitFrom(str, <<>>))

magic_getpath_wrapper(env) == IF env THEN EnvPath ELSE DefaultPath

\* The argument an event keeps: the new flags of flags=, the value the native
\* call returned of version.
EventArg(op, arg) == IF op \in {"flags=", "version"} THEN arg ELSE NoArg

\* A method call returns val (num, when val is an integer).  The event records
\* what the caller sees, and of the native call the method made: rv, whether
\* it succeeded, and cerrno, the C errno it left.
ReturnE(t, op, o, arg, val, num, rv, cerrno) ==
    ev' = [op |-> op, obj |-> o, arg |-> EventArg(op, arg), kind |-> "ret",
           val |-> val, num |-> num, klass |-> "", errno |-> 0, rv |-> rv,
           cerrno |-> cerrno]
Return(t, op, o, arg, val, num, rv) == ReturnE(t, op, o, arg, val, num, rv, 0)

\* A method call raises an exception of class klass with @errno set.
RaiseE(t, op, o, arg, klass, errno, rv, cerrno) ==
    ev' = [op |-> op, obj |-> o, arg |-> EventArg(op, arg), kind |-> "raise",
           val |-> "", num |-> 0, klass |-> klass, errno |-> errno, rv |-> rv,
           cerrno |-> cerrno]
Raise(t, op, o, arg, klass, errno, rv) == RaiseE(t, op, o, arg, klass, errno, rv, 0)

Quiet == ev' = NoEvent

\* The thread may call a method: it is in no call, nobody else holds the GVL.
CanRun(t) ==
    /\ alive
    /\ th[t].pc = "idle"
    /\ gvl = NoThread
    /\ calls < MaxCalls
    /\ calls' = calls + 1

\* Threads inside a libmagic call on the cookie of object o.
InNative(o) == {t \in Threads : th[t].obj = o /\ th[t].pc \in {"nogvl", "gvlcall"}}
\* Threads with a method call in progress on object o.
Using(o) == {t \in Threads : th[t].obj = o /\ th[t].pc # "idle"}

Init ==
    /\ alive = TRUE
    /\ gvl = NoThread
    /\ phase = [o \in Objects |-> "unborn"]
    /\ dataPtr = [o \in Objects |-> NULL]
    /\ closes = [o \in Objects |-> 0]
    /\ nerr = [o \in Objects |-> 0]
    /\ ivFlags = [o \in Objects |-> Nil]
    /\ ivPath = [o \in Objects |-> {}]
    /\ mutex = [o \in Objects |-> NoThread]
    /\ th = [t \in Threads |-> Idle]
    /\ calls = 0
    /\ closeReturned = [o \in Objects |-> FALSE]
    /\ lastSet = [o \in Objects |-> 0]
    /\ ev = NoEvent

\* ------------------------------------------------------------ libmagic
\* What a libmagic call on the cookie returns: success, or failure with the
\* errno of the message it records (0: it records none).
NativeResults == {[ok |-> TRUE, e |-> 0]} \cup
                 {[ok |-> FALSE, e |-> e] : e \in {0} \cup NativeErrnos}

\* The call of thread t on the cookie of o is undefined behaviour: the cookie
\* was destroyed, another call is running on it, or its path argument was
\* never initialized.
Undefined(t, o) ==
    \/ closes[o] > 0
    \/ InNative(o) \ {t} # {}
    \/ th[t].path = <<"?">>

\* The cookie's error state after a call returning r (a destroyed cookie
\* holds no state any more).
NativeEffect(o, r) ==
    nerr' = IF closes[o] > 0 THEN nerr ELSE [nerr EXCEPT ![o] = r.e]

\* rv of a finished call, as the binding sees it.
Rv(r) == IF r.ok THEN "ok" ELSE "fail"

\* magic_error(cookie): the errno of the recorded message, 0 for a NULL
\* message; any of them when the cookie was destroyed.
ErrorRead(o) == IF closes[o] = 0 THEN {nerr[o]} ELSE {0} \cup NativeErrnos

\* ------------------------------------------------------------ exceptions
magic_generic_error(t, op, o, arg, klass, errno, rv, cerrno) ==
    RaiseE(t, op, o, arg, klass, errno, rv, cerrno)

magic_library_error(t, op, o, arg, rv, cerrno, errors) ==
    \E e \in errors :
        IF e # 0
        THEN RaiseE(t, op, o, arg, "MagicError", e, rv, cerrno)
        ELSE RaiseE(t, op, o, arg, "MagicError", UnknownErrno, rv, cerrno)

\* ------------------------------------------------------------ the mutex
\* magic_lock up to the call of the wrapped function: Mutex#lock takes the
\* free mutex and the function starts its call without the GVL, or the thread
\* blocks on the held mutex and gives up the GVL.
magic_lock(t, o, call) ==
    IF mutex[o] = NoThread
    THEN /\ mutex' = [mutex EXCEPT ![o] = t]
         /\ th' = [th EXCEPT ![t] = [call EXCEPT !.pc = "nogvl"]]
    ELSE /\ mutex' = mutex
         /\ th' = [th EXCEPT ![t] = [call EXCEPT !.pc = "waitlock"]]

magic_unlock(o) == mutex' = [mutex EXCEPT ![o] = NoThread]

\* magic_unlock after the function, without rb_ensure.
magic_lock_no_ensure(o, raised) ==
    IF raised THEN mutex' = mutex ELSE magic_unlock(o)

\* rb_ensure: magic_unlock runs whether the function returned or raised.
magic_lock_ensure(o, raised) == magic_unlock(o)

\* A thread blocked in Mutex#lock gets the mutex and the GVL back.
mutex_lock_wakeup(t) ==
    /\ alive
    /\ th[t].pc = "waitlock"
    /\ gvl = NoThread
    /\ mutex[th[t].obj] = NoThread
    /\ mutex' = [mutex EXCEPT ![th[t].obj] = t]
    /\ th' = [th EXCEPT ![t].pc = "nogvl"]
    /\ Quiet
    /\ UNCHANGED <<alive, gvl, phase, dataPtr, closes, nerr, ivFlags, ivPath, calls,
                   history>>

\* ------------------------------------------------ allocation and release
magic_free(cookie) ==
    IF cookie # NULL
    THEN closes' = [closes EXCEPT ![cookie] = @ + 1]
    ELSE closes' = closes

\* rb_mgc_closed testing DATA_P(object) alone.
rb_mgc_closed_data_p(o) == "false"

\* The value of rb_mgc_closed: false when DATA_PTR holds a cookie.
rb_mgc_closed_value(o) == IF dataPtr[o] # NULL THEN "false" ELSE "true"

MAGIC_CLOSED_P(o) == rb_mgc_closed_value(o) = "true"

\* The object that Magic.new allocates next.
NextObject(o) == phase[o] = "unborn" /\ \A p \in Objects : p < o => phase[p] # "unborn"

\* Magic.new: magic_allocate, then rb_mgc_initialize up to the start of the
\* load of the default database.
rb_mgc_initialize(t, o) ==
    /\ CanRun(t)
    /\ NextObject(o)
    /\ \E cookie \in {NULL, o} :
        IF cookie = NULL
        THEN /\ Raise(t, "new", o, NoArg, "NoMemoryError", 0, "fail")
             /\ UNCHANGED <<phase, dataPtr, mutex, th>>
        ELSE /\ phase' = [phase EXCEPT ![o] = "init"]
             /\ dataPtr' = [dataPtr EXCEPT ![o] = cookie]
             /\ magic_lock(t, o, [Idle EXCEPT !.op = "new", !.obj = o])
             /\ Quiet
    /\ UNCHANGED <<alive, gvl, closes, nerr, ivFlags, ivPath, history>>

\* The change rb_mgc_close makes to the cookie and to DATA_PTR.
\* Without the reset of DATA_PTR:
close_cookie_no_reset(o) ==
    /\ magic_free(dataPtr[o])
    /\ dataPtr' = dataPtr

\* With DATA_PTR reset before the cookie is read:
close_cookie_reset_first(o) ==
    /\ magic_free(NULL)
    /\ dataPtr' = [dataPtr EXCEPT ![o] = NULL]

close_cookie(o) ==
    /\ magic_free(dataPtr[o])
    /\ dataPtr' = [dataPtr EXCEPT ![o] = NULL]

\* The finalizer of the object, run on the cookie DATA_PTR holds.
dfree(o) == magic_free(dataPtr[o])

rb_mgc_close(t, o) ==
    /\ CanRun(t)
    /\ phase[o] = "live"
    /\ close_cookie(o)
    /\ Return(t, "close", o, NoArg, "nil", 0, "none")
    /\ closeReturned' = [closeReturned EXCEPT ![o] = TRUE]
    /\ UNCHANGED <<alive, gvl, phase, nerr, ivFlags, ivPath, mutex, th, lastSet>>

rb_mgc_closed(t, o) ==
    /\ CanRun(t)
    /\ phase[o] = "live"
    /\ Return(t, "closed?", o, NoArg, rb_mgc_closed_value(o), 0, "none")
    /\ UNCHANGED <<alive, gvl, objvars, th, history>>

\* The garbage collector frees an object no thread refers to any more.
gc_free(o) ==
    /\ alive
    /\ gvl = NoThread
    /\ phase[o] \in {"live", "dead"}
    /\ Using(o) = {}
    /\ dfree(o)
    /\ phase' = [phase EXCEPT ![o] = "collected"]
    /\ Quiet
    /\ UNCHANGED <<alive, gvl, dataPtr, nerr, ivFlags, ivPath, mutex, th, calls,
                   history>>

\* CHECK_MAGIC_OPEN on a closed object.
CHECK_MAGIC_OPEN(t, op, o, arg) ==
    /\ MAGIC_CLOSED_P(o)
    /\ magic_generic_error(t, op, o, arg, "BadAddressError", EFAULT, "none", 0)
    /\ UNCHANGED <<alive, gvl, objvars, th, history>>

\* Check_Type on an argument of another type.
Check_Type(t, op, o, arg, type) ==
    /\ arg.type # type
    /\ Raise(t, op, o, arg, "TypeError", 0, "none")
    /\ UNCHANGED <<alive, gvl, objvars, th, history>>

\* ------------------------------------------------- methods without a lock
rb_mgc_get_path(t, o, env) ==
    /\ CanRun(t)
    /\ phase[o] = "live"
    /\ \/ CHECK_MAGIC_OPEN(t, "path", o, NoArg)
       \/ /\ ~MAGIC_CLOSED_P(o)
          /\ IF ivPath[o] # {} /\ ivPath[o] # {<<>>} /\ ~env
             THEN ivPath' = ivPath
             ELSE ivPath' = [ivPath EXCEPT
                                ![o] = {magic_split(magic_getpath_wrapper(env))}]
          /\ Return(t, "path", o, NoArg, "array", 0, "none")
          /\ UNCHANGED <<alive, gvl, phase, dataPtr, closes, nerr, ivFlags, mutex, th,
                         history>>

rb_mgc_get_flags(t, o) ==
    /\ CanRun(t)
    /\ phase[o] = "live"
    /\ \/ CHECK_MAGIC_OPEN(t, "flags", o, NoArg)
       \/ /\ ~MAGIC_CLOSED_P(o)
          /\ Return(t, "flags", o, NoArg, "integer", ivFlags[o], "none")
          /\ UNCHANGED <<alive, gvl, objvars, th, history>>

\* A call that holds the GVL starts on the cookie of o.
GvlCall(t, o, op, value) ==
    /\ th' = [th EXCEPT ![t] = [Idle EXCEPT !.pc = "gvlcall", !.op = op,
                                            !.obj = o, !.arg = value]]
    /\ gvl' = t
    /\ Quiet
    /\ UNCHANGED <<alive, objvars, history>>

\* magic.flags = value, up to the start of magic_setflags_wrapper.
rb_mgc_set_flags(t, o, value) ==
    /\ CanRun(t)
    /\ phase[o] = "live"
    /\ \/ Check_Type(t, "flags=", o, value, "T_FIXNUM")
       \/ /\ value.type = "T_FIXNUM"
          /\ CHECK_MAGIC_OPEN(t, "flags=", o, value)
       \/ /\ value.type = "T_FIXNUM"
          /\ ~MAGIC_CLOSED_P(o)
          /\ IF value.wide
             THEN /\ Raise(t, "flags=", o, value, "RangeError", 0, "none")
                  /\ UNCHANGED <<alive, gvl, objvars, th, history>>
             ELSE GvlCall(t, o, "flags=", value)

\* What magic_setflags_wrapper returns: rv and the errno it leaves, and the
\* errno of the message it records in the cookie (0: none).
SetflagsResults ==
    {[ok |-> TRUE, errno |-> 0, e |-> 0]} \cup
    {[ok |-> FALSE, errno |-> n, e |-> 0] : n \in {ENOSYS, EINVAL}} \cup
    {[ok |-> FALSE, errno |-> ENOENT, e |-> e] : e \in {0} \cup NativeErrnos}

\* The errors the cookie of o can report right after a call returning e.
ErrorAfter(o, e) == IF closes[o] = 0 THEN {e} ELSE ErrorRead(o)

\* The switch on errno after a failed magic_setflags_wrapper.
set_flags_switch_no_einval(t, o, value, local_errno, errors) ==
    IF local_errno = ENOSYS
    THEN magic_generic_error(t, "flags=", o, value, "NotImplementedError",
                             ENOSYS, "fail", local_errno)
    ELSE magic_library_error(t, "flags=", o, value, "fail", local_errno, errors)

set_flags_switch(t, o, value, local_errno, errors) ==
    IF local_errno = ENOSYS
    THEN magic_generic_error(t, "flags=", o, value, "NotImplementedError",
                             ENOSYS, "fail", local_errno)
    ELSE IF local_errno = EINVAL
    THEN magic_generic_error(t, "flags=", o, value, "FlagsError", EINVAL,
                             "fail", local_errno)
    ELSE magic_library_error(t, "flags=", o, value, "fail", local_errno, errors)

\* @flags set before the result of the call is looked at.
set_flags_ivar_early(o, value, raised) ==
    ivFlags' = [ivFlags EXCEPT ![o] = value.v]

\* @flags after the call: set on the path that reaches rb_ivar_set only.
set_flags_ivar(o, value, raised) ==
    ivFlags' = IF raised THEN ivFlags ELSE [ivFlags EXCEPT ![o] = value.v]

\* magic_setflags_wrapper returns and rb_mgc_set_flags runs to its end.
rb_mgc_set_flags_return(t) ==
    LET o == th[t].obj
        value == th[t].arg
    IN  /\ alive
        /\ th[t].pc = "gvlcall"
        /\ th[t].op = "flags="
        /\ \E r \in SetflagsResults :
            /\ IF r.ok THEN nerr' = nerr ELSE NativeEffect(o, r)
            /\ set_flags_ivar(o, value, ~r.ok)
            /\ lastSet' = IF r.ok THEN [lastSet EXCEPT ![o] = value.v] ELSE lastSet
            /\ IF r.ok
               THEN Return(t, "flags=", o, value, "integer", value.v, "ok")
               ELSE set_flags_switch(t, o, value, r.errno, ErrorAfter(o, r.e))
        /\ th' = [th EXCEPT ![t] = Idle]
        /\ gvl' = NoThread
        /\ UNCHANGED <<alive, phase, dataPtr, closes, ivPath, mutex, calls,
                       closeReturned>>

\* magic.buffer(value), up to the start of magic_buffer.
rb_mgc_buffer(t, o, value) ==
    /\ CanRun(t)
    /\ phase[o] = "live"
    /\ \/ Check_Type(t, "buffer", o, value, "T_STRING")
       \/ /\ value.type = "T_STRING"
          /\ CHECK_MAGIC_OPEN(t, "buffer", o, value)
       \/ /\ value.type = "T_STRING"
          /\ ~MAGIC_CLOSED_P(o)
          /\ GvlCall(t, o, "buffer", NoArg)

\* The end of a method whose libmagic call returned a C string or NULL.
cstring_result_no_raise(t, op, o, value, rv, errors) ==
    IF rv = "fail"
    THEN Return(t, op, o, value, "nil", 0, rv)
    ELSE Return(t, op, o, value, "string", 0, rv)

cstring_result(t, op, o, value, rv, errors) ==
    IF rv = "fail"
    THEN magic_library_error(t, op, o, value, rv, 0, errors)
    ELSE Return(t, op, o, value, "string", 0, rv)

\* magic_buffer returns and rb_mgc_buffer runs to its end.
rb_mgc_buffer_return(t) ==
    LET o == th[t].obj
    IN  /\ alive
        /\ th[t].pc = "gvlcall"
        /\ th[t].op = "buffer"
        /\ \E r \in NativeResults :
            /\ NativeEffect(o, r)
            /\ cstring_result(t, "buffer", o, th[t].arg, Rv(r), ErrorAfter(o, r.e))
        /\ th' = [th EXCEPT ![t] = Idle]
        /\ gvl' = NoThread
        /\ UNCHANGED <<alive, phase, dataPtr, closes, ivFlags, ivPath, mutex, calls,
                       history>>

\* Magic.version
rb_mgc_version(t) ==
    /\ CanRun(t)
    /\ \E r \in {[rv |-> 514, errno |-> 0], [rv |-> 514, errno |-> ENOSYS],
                 [rv |-> -1, errno |-> ENOSYS], [rv |-> -1, errno |-> EINVAL]} :
        IF r.rv < 0 /\ r.errno = ENOSYS
        THEN RaiseE(t, "version", 0, Fixnum(r.rv), "NotImplementedError",
                    ENOSYS, "fail", r.errno)
        ELSE ReturnE(t, "version", 0, Fixnum(r.rv), "integer", r.rv,
                     IF r.rv < 0 THEN "fail" ELSE "ok", r.errno)
    /\ UNCHANGED <<alive, gvl, objvars, th, history>>

\* ---------------------------------------------------- methods with the lock
rb_mgc_load(t, o, arguments, env) ==
    /\ CanRun(t)
    /\ phase[o] = "live"
    /\ \/ CHECK_MAGIC_OPEN(t, "load", o, NoArg)
       \/ /\ ~MAGIC_CLOSED_P(o)
          /\ magic_lock(t, o, [Idle EXCEPT !.op = "load", !.obj = o,
                 !.path = IF arguments # <<>> THEN magic_join(arguments)
                          ELSE magic_getpath_wrapper(env)])
          /\ Quiet
          /\ UNCHANGED <<alive, gvl, phase, dataPtr, closes, nerr, ivFlags, ivPath,
                         history>>

\* ma.file.path of check and compile: set from the arguments only when there
\* are any, an uninitialized pointer otherwise.
UninitPath == <<"?">>
OptionalPath(arguments) ==
    IF arguments # <<>> THEN magic_join(arguments) ELSE UninitPath

rb_mgc_check(t, o, arguments) ==
    /\ CanRun(t)
    /\ phase[o] = "live"
    /\ \/ CHECK_MAGIC_OPEN(t, "check", o, NoArg)
       \/ /\ ~MAGIC_CLOSED_P(o)
          /\ magic_lock(t, o, [Idle EXCEPT !.op = "check", !.obj = o,
                                           !.path = OptionalPath(arguments)])
          /\ Quiet
          /\ UNCHANGED <<alive, gvl, phase, dataPtr, closes, nerr, ivFlags, ivPath,
                         history>>

rb_mgc_compile(t, o, arguments) ==
    /\ CanRun(t)
    /\ phase[o] = "live"
    /\ \/ CHECK_MAGIC_OPEN(t, "compile", o, NoArg)
       \/ /\ ~MAGIC_CLOSED_P(o)
          /\ magic_lock(t, o, [Idle EXCEPT !.op = "compile", !.obj = o,
                                           !.path = OptionalPath(arguments)])
          /\ Quiet
          /\ UNCHANGED <<alive, gvl, phase, dataPtr, closes, nerr, ivFlags, ivPath,
                         history>>

rb_mgc_file(t, o, value) ==
    /\ CanRun(t)
    /\ phase[o] = "live"
    /\ \/ Check_Type(t, "file", o, value, "T_STRING")
       \/ /\ value.type = "T_STRING"
          /\ CHECK_MAGIC_OPEN(t, "file", o, value)
       \/ /\ value.type = "T_STRING"
          /\ ~MAGIC_CLOSED_P(o)
          /\ magic_lock(t, o, [Idle EXCEPT !.op = "file", !.obj = o])
          /\ Quiet
          /\ UNCHANGED <<alive, gvl, phase, dataPtr, closes, nerr, ivFlags, ivPath,
                         history>>

rb_mgc_descriptor(t, o, value) ==
    /\ CanRun(t)
    /\ phase[o] = "live"
    /\ \/ Check_Type(t, "descriptor", o, value, "T_FIXNUM")
       \/ /\ value.type = "T_FIXNUM"
          /\ CHECK_MAGIC_OPEN(t, "descriptor", o, value)
       \/ /\ value.type = "T_FIXNUM"
          /\ ~MAGIC_CLOSED_P(o)
          /\ IF value.wide
             THEN /\ Raise(t, "descriptor", o, value, "RangeError", 0, "none")
                  /\ UNCHANGED <<alive, gvl, objvars, th, history>>
             ELSE /\ magic_lock(t, o, [Idle EXCEPT !.op = "descriptor",
                                                   !.obj = o])
                  /\ Quiet
                  /\ UNCHANGED <<alive, gvl, phase, dataPtr, closes, nerr,
                                 ivFlags, ivPath, history>>

\* The libmagic call made without the GVL returns; the thread then waits for
\* the GVL.
NogvlReturn(t) ==
    /\ alive
    /\ th[t].pc = "nogvl"
    /\ \E r \in NativeResults :
        /\ NativeEffect(th[t].obj, r)
        /\ th' = [th EXCEPT ![t].pc = "ret", ![t].rv = Rv(r)]
    /\ Quiet
    /\ UNCHANGED <<alive, gvl, phase, dataPtr, closes, ivFlags, ivPath, mutex, calls,
                   history>>

nogvl_magic_load(t) ==
    /\ th[t].op \in {"new", "load"}
    /\ NogvlReturn(t)

nogvl_magic_check(t) ==
    /\ th[t].op = "check"
    /\ NogvlReturn(t)

nogvl_magic_compile(t) ==
    /\ th[t].op = "compile"
    /\ NogvlReturn(t)

nogvl_magic_file(t) ==
    /\ th[t].op = "file"
    /\ NogvlReturn(t)

nogvl_magic_descriptor(t) ==
    /\ th[t].op = "descriptor"
    /\ NogvlReturn(t)

\* NOGVL returns with the GVL held again; an interrupt pending for the thread
\* is raised from it instead (intr).  rb_ensure runs magic_unlock either way.
Resumed(t, op) ==
    /\ alive
    /\ th[t].pc = "ret"
    /\ th[t].op = op
    /\ gvl = NoThread
    /\ th' = [th EXCEPT ![t] = Idle]
    /\ calls' = calls
    /\ UNCHANGED history

Interrupted(t) ==
    /\ magic_lock_ensure(th[t].obj, TRUE)
    /\ Raise(t, th[t].op, th[t].obj, th[t].arg, "Interrupt", 0, "none")

rb_mgc_initialize_return(t) ==
    LET o == th[t].obj
    IN  /\ Resumed(t, "new")
        /\ \E intr \in BOOLEAN :
            IF intr
            THEN /\ Interrupted(t)
                 /\ phase' = [phase EXCEPT ![o] = "dead"]
                 /\ ivFlags' = ivFlags
            ELSE /\ magic_lock_ensure(o, FALSE)
                 /\ IF th[t].rv = "fail"
                    THEN /\ magic_library_error(t, "new", o, NoArg, "fail", 0, ErrorRead(o))
                         /\ phase' = [phase EXCEPT ![o] = "dead"]
                         /\ ivFlags' = ivFlags
                    ELSE /\ ivFlags' = [ivFlags EXCEPT ![o] = MAGIC_NONE]
                         /\ phase' = [phase EXCEPT ![o] = "live"]
                         /\ Return(t, "new", o, NoArg, "self", 0, "ok")
        /\ UNCHANGED <<alive, gvl, dataPtr, closes, nerr, ivPath>>

rb_mgc_load_return(t) ==
    LET o == th[t].obj
    IN  /\ Resumed(t, "load")
        /\ \E intr \in BOOLEAN :
            IF intr
            THEN Interrupted(t) /\ ivPath' = ivPath
            ELSE /\ magic_lock_ensure(o, FALSE)
                 /\ IF th[t].rv = "fail"
                    THEN /\ magic_library_error(t, "load", o, NoArg, "fail", 0, ErrorRead(o))
                         /\ ivPath' = ivPath
                    ELSE /\ ivPath' = [ivPath EXCEPT ![o] = {magic_split(th[t].path)}]
                         /\ Return(t, "load", o, NoArg, "array", 0, "ok")
        /\ UNCHANGED <<alive, gvl, phase, dataPtr, closes, nerr, ivFlags>>

\* The end of rb_mgc_check: false when the check failed, true otherwise.
check_result(t, o, rv) ==
    IF rv = "fail"
    THEN Return(t, "check", o, NoArg, "false", 0, rv)
    ELSE Return(t, "check", o, NoArg, "true", 0, rv)

rb_mgc_check_return(t) ==
    LET o == th[t].obj
    IN  /\ Resumed(t, "check")
        /\ \E intr \in BOOLEAN :
            IF intr
            THEN Interrupted(t)
            ELSE /\ magic_lock_ensure(o, FALSE)
                 /\ check_result(t, o, th[t].rv)
        /\ UNCHANGED <<alive, gvl, phase, dataPtr, closes, nerr, ivFlags, ivPath>>

rb_mgc_compile_return(t) ==
    LET o == th[t].obj
    IN  /\ Resumed(t, "compile")
        /\ \E intr \in BOOLEAN :
            IF intr
            THEN Interrupted(t)
            ELSE /\ magic_lock_ensure(o, FALSE)
                 /\ IF th[t].rv = "fail"
                    THEN magic_library_error(t, "compile", o, NoArg, "fail", 0,
                                             ErrorRead(o))
                    ELSE Return(t, "compile", o, NoArg, "true", 0, "ok")
        /\ UNCHANGED <<alive, gvl, phase, dataPtr, closes, nerr, ivFlags, ivPath>>

rb_mgc_file_return(t) ==
    LET o == th[t].obj
    IN  /\ Resumed(t, "file")
        /\ \E intr \in BOOLEAN :
            IF intr
            THEN Interrupted(t)
            ELSE /\ magic_lock_ensure(o, FALSE)
                 /\ cstring_result(t, "file", o, th[t].arg, th[t].rv, ErrorRead(o))
        /\ UNCHANGED <<alive, gvl, phase, dataPtr, closes, nerr, ivFlags, ivPath>>

rb_mgc_descriptor_return(t) ==
    LET o == th[t].obj
    IN  /\ Resumed(t, "descriptor")
        /\ \E intr \in BOOLEAN :
            IF intr
            THEN Interrupted(t)
            ELSE /\ magic_lock_ensure(o, FALSE)
                 /\ cstring_result(t, "descriptor", o, th[t].arg, th[t].rv,
                                   ErrorRead(o))
        /\ UNCHANGED <<alive, gvl, phase, dataPtr, closes, nerr, ivFlags, ivPath>>

\* Undefined behaviour aborts the process: a libmagic call on a cookie that
\* was destroyed, that another call is running on, or with an uninitialized
\* path; or magic_error on a destroyed cookie.
Abort(t) ==
    /\ alive
    /\ \/ th[t].pc \in {"nogvl", "gvlcall"} /\ Undefined(t, th[t].obj)
       \/ /\ th[t].pc = "ret"
          /\ th[t].rv = "fail"
          /\ th[t].op # "check"
          /\ gvl = NoThread
          /\ closes[th[t].obj] > 0
    /\ alive' = FALSE
    /\ Quiet
    /\ UNCHANGED <<gvl, objvars, th, calls, history>>

\* ------------------------------------------------------------ the system
Next ==
    \/ \E t \in Threads, o \in Objects : rb_mgc_initialize(t, o)
    \/ \E t \in Threads : rb_mgc_initialize_return(t)
    \/ \E t \in Threads, o \in Objects : rb_mgc_close(t, o)
    \/ \E t \in Threads, o \in Objects : rb_mgc_closed(t, o)
    \/ \E t \in Threads, o \in Objects, env \in BOOLEAN : rb_mgc_get_path(t, o, env)
    \/ \E t \in Threads, o \in Objects : rb_mgc_get_flags(t, o)
    \/ \E t \in Threads, o \in Objects, v \in Values : rb_mgc_set_flags(t, o, v)
    \/ \E t \in Threads : rb_mgc_set_flags_return(t)
    \/ \E t \in Threads, o \in Objects, a \in PathArguments, env \in BOOLEAN :
           rb_mgc_load(t, o, a, env)
    \/ \E t \in Threads : rb_mgc_load_return(t)
    \/ \E t \in Threads, o \in Objects, a \in PathArguments : rb_mgc_check(t, o, a)
    \/ \E t \in Threads : rb_mgc_check_return(t)
    \/ \E t \in Threads, o \in Objects, a \in PathArguments : rb_mgc_compile(t, o, a)
    \/ \E t \in Threads : rb_mgc_compile_return(t)
    \/ \E t \in Threads, o \in Objects, v \in Values : rb_mgc_file(t, o, v)
    \/ \E t \in Threads : rb_mgc_file_return(t)
    \/ \E t \in Threads, o \in Objects, v \in Values : rb_mgc_buffer(t, o, v)
    \/ \E t \in Threads : rb_mgc_buffer_return(t)
    \/ \E t \in Threads, o \in Objects, v \in Values : rb_mgc_descriptor(t, o, v)
    \/ \E t \in Threads : rb_mgc_descriptor_return(t)
    \/ \E t \in Threads : rb_mgc_version(t)
    \/ \E t \in Threads : mutex_lock_wakeup(t)
    \/ \E t \in Threads : nogvl_magic_load(t)
    \/ \E t \in Threads : nogvl_magic_check(t)
    \/ \E t \in Threads : nogvl_magic_compile(t)
    \/ \E t \in Threads : nogvl_magic_file(t)
    \/ \E t \in Threads : nogvl_magic_descriptor(t)
    \/ \E o \in Objects : gc_free(o)
    \/ \E t \in Threads : Abort(t)

Spec == Init /\ [][Next]_vars

\* ---------------------------------------------------------- properties
NativePcs == {"nogvl", "gvlcall"}
HandleOps == {"path", "flags", "flags=", "load", "check", "compile", "file",
              "buffer", "descriptor"}
Completed == ev.kind # "none"
OnObject == ev.obj \in Objects

\* C1: at most one libmagic call is in progress on the cookie of an object at
\* any time, under every interleaving of the threads.
C1_MutualExclusion ==
    \A o \in Objects : Cardinality(InNative(o)) <= 1

\* C2: no libmagic call is started on, or still in progress on, a cookie that
\* close has destroyed.
C2_NoCallOnDestroyedCookie ==
    \A t \in Threads : th[t].pc \in NativePcs => closes[th[t].obj] = 0

\* C3: the mutex of an object is held only by a thread that is inside the
\* function magic_lock wraps; once that function has returned or raised, the
\* mutex is unlocked, so whenever no call is in progress on an object its
\* mutex is free for the next one.
C3_GuaranteedRelease ==
    \A o \in Objects :
        mutex[o] # NoThread =>
            /\ th[mutex[o]].obj = o
            /\ th[mutex[o]].pc \in {"nogvl", "ret"}

\* An exception left the wrapped function of a locked call and the mutex of
\* the object is unlocked.
C3_Witness ==
    /\ Completed /\ OnObject
    /\ ev.op = "file"
    /\ ev.klass = "Interrupt"
    /\ mutex[ev.obj] = NoThread

\* The step is the call of a handle operation on object o.
CallsOn(o) ==
    /\ calls' = calls + 1
    /\ \/ ev'.kind # "none" /\ ev'.obj = o /\ ev'.op \in HandleOps
       \/ \E t \in Threads : th'[t] # th[t] /\ th'[t].obj = o

\* C4: a handle operation called on an object after close has returned on it
\* raises, starts no libmagic call and leaves the flags, the path and the
\* mutex of the object as they were.
C4_ClosedAlwaysRaises ==
    [][\A o \in Objects :
          (closeReturned[o] /\ CallsOn(o)) =>
              /\ ev'.kind = "raise"
              /\ th' = th
              /\ gvl' = gvl
              /\ ivFlags'[o] = ivFlags[o]
              /\ ivPath'[o] = ivPath[o]
              /\ mutex'[o] = mutex[o]
              /\ nerr'[o] = nerr[o]
              /\ closes'[o] = closes[o]]_vars

\* buffer was called on an object that close had returned on, and raised.
C4_Witness ==
    /\ Completed /\ OnObject
    /\ ev.op = "buffer"
    /\ closeReturned[ev.obj]
    /\ ev.kind = "raise"
    /\ ev.klass = "BadAddressError"

C6_FlagsRoundTrip ==
    /\ \A o \in Objects : phase[o] = "live" => ivFlags[o] = lastSet[o]
    /\ (ev.op = "flags" /\ ev.kind = "ret") => ev.num = lastSet[ev.obj]

\* The getter returned a value that flags= had set.
C6_Witness ==
    /\ ev.op = "flags"
    /\ ev.kind = "ret"
    /\ ev.num = MAGIC_MIME_TYPE

\* The exception carries what the cookie of the object reports: the errno of
\* its message, or -1 when it has none.
CarriesNativeError ==
    /\ ev.klass = "MagicError"
    /\ closes[ev.obj] = 0 =>
           ev.errno = IF nerr[ev.obj] # 0 THEN nerr[ev.obj] ELSE UnknownErrno

\* C7, as claimed: new, load, check, compile, file, buffer and descriptor
\* raise whenever their libmagic call returns a negative value or NULL.
C7_RaisesOnNativeFailure ==
    (ev.rv = "fail" /\ ev.op \in {"new", "load", "check", "compile", "file",
                                   "buffer", "descriptor"})
        => ev.kind = "raise"

\* C7, amended: load, compile, file, buffer and descriptor raise MagicError
\* with the error of the cookie whenever their libmagic call fails, and so
\* does new when its load fails; new raises NoMemoryError when magic_open
\* returns NULL; check returns false and does not raise.
C7_ErrorTranslation ==
    /\ (ev.rv = "fail" /\ ev.op \in {"load", "compile", "file", "buffer",
                                      "descriptor"})
           => ev.kind = "raise" /\ CarriesNativeError
    /\ (ev.rv = "fail" /\ ev.op = "new")
           => /\ ev.kind = "raise"
              /\ IF phase[ev.obj] = "unborn"
                 THEN ev.klass = "NoMemoryError"
                 ELSE CarriesNativeError
    /\ (ev.rv = "fail" /\ ev.op = "check")
           => ev.kind = "ret" /\ ev.val = "false"

\* file raised MagicError with the errno libmagic recorded.
C7_Witness ==
    /\ ev.op = "file"
    /\ ev.rv = "fail"
    /\ ev.klass = "MagicError"
    /\ ev.errno \in NativeErrnos

\* C8: a thread inside a libmagic call does not hold the GVL.
C8_NativeCallsWithoutGvl ==
    \A t \in Threads : th[t].pc \in NativePcs => gvl # t

\* C9: a flags= whose native call failed raises NotImplementedError with
\* ENOSYS when errno is ENOSYS, FlagsError with EINVAL when errno is EINVAL
\* and MagicError otherwise; version raises NotImplementedError with ENOSYS
\* exactly when the native call returned a negative value with errno ENOSYS
\* and returns the native value otherwise.
C9_ErrorCategories ==
    /\ (ev.op = "flags=" /\ ev.rv = "fail") =>
           /\ ev.kind = "raise"
           /\ ev.cerrno = ENOSYS =>
                  ev.klass = "NotImplementedError" /\ ev.errno = ENOSYS
           /\ ev.cerrno = EINVAL =>
                  ev.klass = "FlagsError" /\ ev.errno = EINVAL
           /\ ev.cerrno \notin {ENOSYS, EINVAL} => ev.klass = "MagicError"
    /\ ev.op = "version" =>
           /\ ev.kind = "raise" <=> (ev.arg.v < 0 /\ ev.cerrno = ENOSYS)
           /\ ev.kind = "raise" =>
                  ev.klass = "NotImplementedError" /\ ev.errno = ENOSYS
           /\ ev.kind = "ret" => ev.val = "integer" /\ ev.num = ev.arg.v

\* flags= raised FlagsError.
C9_Witness ==
    /\ ev.op = "flags="
    /\ ev.rv = "fail"
    /\ ev.klass = "FlagsError"

\* C10: magic_close is called on the cookie of an object once if close has
\* returned on the object or the object was collected, and never otherwise.
C10_SingleDestruction ==
    \A o \in Objects :
        closes[o] = IF closeReturned[o] \/ phase[o] = "collected" THEN 1 ELSE 0

\* An object was collected after close had returned on it.
C10_Witness ==
    \E o \in Objects :
        /\ phase[o] = "collected"
        /\ closeReturned[o]
        /\ closes[o] = 1
====
